---------------------------- MODULE Spec2Model ----------------------------
(***************************************************************************)
(* fix_test_infrastructure.py: a one-shot script that patches Code.gs and  *)
(* .github/workflows/stage2-testing.yml in place, keeps a '.backup' copy   *)
(* of each file it is about to rewrite, and then stages, commits and       *)
(* pushes.  A text is a sequence of characters (one-character strings);    *)
(* offsets are 0-based as in Python, and -1 means 'not found'.             *)
(***************************************************************************)
EXTENDS Integers, Sequences, FiniteSets, TLC

\* the longest Code.gs input, in segments of CodeSegments
MaxCodeSegs == 3
\* the longest workflow input, in segments of WorkflowSegments
MaxWfSegs == 3
\* the number of times the operator runs the script on the same working tree
MaxRuns == 2

(***************************************************************************)
(* The texts of the source.                                                *)
(***************************************************************************)
\* the marker of Code.gs: 'handleBackwardCompatibility' (line 34)
MARKER ==
  <<"h","a","n","d","l","e","B","a","c","k","w","a","r","d","C","o","m","p","a","t","i","b","i","l","i","t","y">>

\* the fixed head of the declaration pattern r'(function doGet\s*\(\s*e\s*\)\s*\{)' (line 62)
FUNCTION_DOGET ==
  <<"f","u","n","c","t","i","o","n"," ","d","o","G","e","t">>

\* the literal searched by code.find('function doGet(e) {') (line 70)
DOGET_LITERAL ==
  <<"f","u","n","c","t","i","o","n"," ","d","o","G","e","t","(","e",")"," ","{">>

\* the literal searched by code.find('try', brace_pos) (line 72)
TRY ==
  <<"t","r","y">>

\* the literal searched by code.find('{', ...) (lines 71, 75)
BRACE ==
  <<"{">>

\* the shim definition inserted before the declaration (lines 41-60); a character outside ASCII is one element named by its code point
func ==
  <<"\n">> \o
  <<"/","/"," ","B","A","C","K","W","A","R","D"," ","C","O","M","P","A","T","I","B","I","L","I","T","Y"," ","L","A","Y","E","R","\n">> \o
  <<"f","u","n","c","t","i","o","n"," ","h","a","n","d","l","e","B","a","c","k","w","a","r","d","C","o","m","p","a","t","i","b","i","l","i","t","y","(","e",")"," ">> \o
  <<"{","\n">> \o
  <<" "," ","c","o","n","s","t"," ","o","l","d","P","a","g","e"," ","="," ","e",".","p","a","r","a","m","e","t","e","r",".","p"," ","|","|"," ","e",".","p","a","r">> \o
  <<"a","m","e","t","e","r",".","p","a","g","e",";","\n">> \o
  <<" "," ","c","o","n","s","t"," ","t","e","n","a","n","t"," ","="," ","e",".","p","a","r","a","m","e","t","e","r",".","t","e","n","a","n","t",";","\n">> \o
  <<" "," ","i","f"," ","(","!","o","l","d","P","a","g","e"," ","|","|"," ","!","t","e","n","a","n","t",")"," ","r","e","t","u","r","n"," ","n","u","l","l",";","\n">> \o
  <<" "," ","L","o","g","g","e","r",".","l","o","g","(","'","U+1F504"," ","B","a","c","k","w","a","r","d"," ","c","o","m","p","a","t",":"," ","?","p","=","'"," ","+"," ">> \o
  <<"o","l","d","P","a","g","e"," ","+"," ","'","&","t","e","n","a","n","t","=","'"," ","+"," ","t","e","n","a","n","t",")",";","\n">> \o
  <<" "," ","c","o","n","s","t"," ","p","a","g","e","M","a","p","p","i","n","g"," ","="," ","{","'","s","t","a","t","u","s","'",":","'","s","t","a","t","u","s","'">> \o
  <<",","'","a","d","m","i","n","'",":","'","m","a","n","a","g","e","'",",","'","e","v","e","n","t","s","'",":","'","e","v","e","n","t","s","'",",","'","d","i","s">> \o
  <<"p","l","a","y","'",":","'","d","i","s","p","l","a","y","'",",","'","p","o","s","t","e","r","'",":","'","p","o","s","t","e","r","'",",","'","p","u","b","l","i">> \o
  <<"c","'",":","'","p","u","b","l","i","c","'",",","'","s","p","o","n","s","o","r","'",":","'","s","p","o","n","s","o","r","s","'",",","'","c","o","n","f","i","g">> \o
  <<"'",":","'","c","o","n","f","i","g","'",",","'","r","e","p","o","r","t","s","'",":","'","r","e","p","o","r","t","s","'",",","'","d","i","a","g","n","o","s","t">> \o
  <<"i","c","s","'",":","'","d","i","a","g","n","o","s","t","i","c","s","'","}",";","\n">> \o
  <<" "," ","c","o","n","s","t"," ","n","e","w","P","a","t","h"," ","="," ","p","a","g","e","M","a","p","p","i","n","g","[","o","l","d","P","a","g","e","]"," ","|">> \o
  <<"|"," ","o","l","d","P","a","g","e",";","\n">> \o
  <<" "," ","l","e","t"," ","n","e","w","U","r","l"," ","="," ","(","o","l","d","P","a","g","e"," ","=","=","="," ","'","s","t","a","t","u","s","'",")"," ","?"," ">> \o
  <<"'","/","s","t","a","t","u","s","?","t","e","n","a","n","t","=","'"," ","+"," ","t","e","n","a","n","t"," ",":"," ","'","/","'"," ","+"," ","t","e","n","a","n">> \o
  <<"t"," ","+"," ","'","/","'"," ","+"," ","n","e","w","P","a","t","h",";","\n">> \o
  <<" "," ","f","o","r"," ","(","c","o","n","s","t"," ","k","e","y"," ","i","n"," ","e",".","p","a","r","a","m","e","t","e","r",")"," ","{","\n">> \o
  <<" "," "," "," ","i","f"," ","(","k","e","y"," ","!","=","="," ","'","p","'"," ","&","&"," ","k","e","y"," ","!","=","="," ","'","p","a","g","e","'"," ","&","&">> \o
  <<" ","k","e","y"," ","!","=","="," ","'","t","e","n","a","n","t","'",")"," ","{","\n">> \o
  <<" "," "," "," "," "," ","n","e","w","U","r","l"," ","+","="," ","(","n","e","w","U","r","l",".","i","n","d","e","x","O","f","(","'","?","'",")"," ",">"," ","0">> \o
  <<" ","?"," ","'","&","'"," ",":"," ","'","?","'",")"," ","+"," ","k","e","y"," ","+"," ","'","=","'"," ","+"," ","e",".","p","a","r","a","m","e","t","e","r","[">> \o
  <<"k","e","y","]",";","\n">> \o
  <<" "," "," "," ","}","\n">> \o
  <<" "," ","}","\n">> \o
  <<" "," ","L","o","g","g","e","r",".","l","o","g","(","'"," "," "," ","U+2192"," ","R","e","d","i","r","e","c","t","i","n","g"," ","t","o",":"," ","'"," ","+"," ","n">> \o
  <<"e","w","U","r","l",")",";","\n">> \o
  <<" "," ","r","e","t","u","r","n"," ","H","t","m","l","S","e","r","v","i","c","e",".","c","r","e","a","t","e","H","t","m","l","O","u","t","p","u","t","(","'","<">> \o
  <<"!","D","O","C","T","Y","P","E"," ","h","t","m","l",">","<","h","t","m","l",">","<","h","e","a","d",">","<","m","e","t","a"," ","h","t","t","p","-","e","q","u">> \o
  <<"i","v","=","\"","r","e","f","r","e","s","h","\""," ","c","o","n","t","e","n","t","=","\"","0",";","u","r","l","=","'"," ","+"," ","n","e","w","U","r","l"," ","+">> \o
  <<" ","'","\"",">","<","/","h","e","a","d",">","<","b","o","d","y",">","R","e","d","i","r","e","c","t","i","n","g",".",".",".","<","/","b","o","d","y",">","<","/">> \o
  <<"h","t","m","l",">","'",")",".","s","e","t","T","i","t","l","e","(","'","R","e","d","i","r","e","c","t","i","n","g","'",")",";","\n">> \o
  <<"}","\n">> \o
  <<"\n">>

\* the call-site text (line 79)
call ==
  <<"\n">> \o
  <<" "," ","c","o","n","s","t"," ","b","a","c","k","w","a","r","d","C","o","m","p","a","t","R","e","d","i","r","e","c","t"," ","="," ","h","a","n","d","l","e","B">> \o
  <<"a","c","k","w","a","r","d","C","o","m","p","a","t","i","b","i","l","i","t","y","(","e",")",";","\n">> \o
  <<" "," ","i","f"," ","(","b","a","c","k","w","a","r","d","C","o","m","p","a","t","R","e","d","i","r","e","c","t",")"," ","r","e","t","u","r","n"," ","b","a","c">> \o
  <<"k","w","a","r","d","C","o","m","p","a","t","R","e","d","i","r","e","c","t",";","\n">> \o
  <<" "," ","\n">>

\* the marker of the workflow (line 91), also the text of the inserted line (line 100)
BASE_URL_BINDING ==
  <<"B","A","S","E","_","U","R","L",":"," ","$","{","{"," ","n","e","e","d","s",".","s","e","t","u","p",".","o","u","t","p","u","t","s",".","d","e","p","l","o","y">> \o
  <<"m","e","n","t","_","u","r","l"," ","}","}">>

\* group 2 of the workflow pattern (line 99)
GOOGLE_SCRIPT_URL_BINDING ==
  <<"G","O","O","G","L","E","_","S","C","R","I","P","T","_","U","R","L",":"," ","$","{","{"," ","n","e","e","d","s",".","s","e","t","u","p",".","o","u","t","p","u">> \o
  <<"t","s",".","d","e","p","l","o","y","m","e","n","t","_","u","r","l"," ","}","}">>

\* the width of the search window for 'try' (line 74)
Window == 100

\* the characters \s matches among those the inputs are built from (lines 62, 99)
Whitespace == {" ", "\t", "\n", "\r", "\f"}

\* the paths the script reads and writes (lines 21, 24, 37, 94)
CODE_GS == "Code.gs"
CODE_GS_BACKUP == "Code.gs.backup"
WORKFLOW_YML == ".github/workflows/stage2-testing.yml"
WORKFLOW_YML_BACKUP == ".github/workflows/stage2-testing.yml.backup"
Paths == {CODE_GS, CODE_GS_BACKUP, WORKFLOW_YML, WORKFLOW_YML_BACKUP}

\* the content of a path for which os.path.exists is false (lines 21, 24):
\* not a text, its one element is not a character
NoFile == <<"<absent>">>

(***************************************************************************)
(* Python's string operations, as the script uses them.                    *)
(***************************************************************************)
\* the least element of a non-empty set of integers
MinOf(S) == CHOOSE x \in S : \A y \in S : x <= y

\* s[a:b] for 0 <= a <= b <= len(s)
Slice(s, a, b) == SubSeq(s, a + 1, b)

\* s[i:i+len(sub)] == sub
StartsAt(s, sub, i) ==
  /\ i >= 0
  /\ i + Len(sub) <= Len(s)
  /\ s[i + 1] = sub[1]
  /\ SubSeq(s, i + 1, i + Len(sub)) = sub

\* s.find(sub, start): the lowest offset >= start where sub occurs, else -1;
\* a negative start counts from the end of s, as in a slice
Find(s, sub, start) ==
  LET st == IF start < 0 THEN (IF Len(s) + start < 0 THEN 0 ELSE Len(s) + start)
            ELSE start
      hits == {i \in st..(Len(s) - Len(sub)) : StartsAt(s, sub, i)}
  IN IF hits = {} THEN -1 ELSE MinOf(hits)

\* sub in s
Contains(s, sub) == Find(s, sub, 0) # -1

\* os.linesep: the script runs under '#!/usr/bin/env python3' (line 1)
linesep == <<"\n">>

\* the 1-based positions of character c in s
Positions(s, c) == {i \in 1..Len(s) : s[i] = c}

\* open(path, "r") ... f.read() (lines 31-32, 88-89): text mode reads with
\* universal newlines, '\r\n' and a lone '\r' both arrive as '\n'; crs are
\* the positions of '\r' not yet read, from is the offset reading has reached
RECURSIVE DecodeFrom(_, _, _)
DecodeFrom(b, from, crs) ==
  IF crs = {} THEN Slice(b, from, Len(b))
  ELSE LET cr == MinOf(crs)
           next == IF cr < Len(b) /\ b[cr + 1] = "\n" THEN cr + 1 ELSE cr
       IN Slice(b, from, cr - 1) \o <<"\n">> \o DecodeFrom(b, next, crs \ {cr})

Decode(b) == DecodeFrom(b, 0, Positions(b, "\r"))

\* open(path, "w") ... f.write(text) (lines 37-38, 82-83, 94-95, 104-105):
\* text mode writes os.linesep for every '\n'; nls are the positions of '\n'
\* not yet written, from is the offset writing has reached
RECURSIVE EncodeFrom(_, _, _)
EncodeFrom(t, from, nls) ==
  IF nls = {} THEN Slice(t, from, Len(t))
  ELSE LET nl == MinOf(nls)
       IN Slice(t, from, nl - 1) \o linesep \o EncodeFrom(t, nl, nls \ {nl})

Encode(t) == EncodeFrom(t, 0, Positions(t, "\n"))

\* the offset where a greedy \s* that starts at offset i stops
SkipWs(s, i) ==
  MinOf({j \in i..Len(s) : j = Len(s) \/ s[j + 1] \notin Whitespace})

\* the end offset of a match of the declaration pattern that starts at offset
\* i, or -1: 'function doGet' \s* '(' \s* 'e' \s* ')' \s* '{'
DeclMatchEnd(s, i) ==
  IF ~StartsAt(s, FUNCTION_DOGET, i) THEN -1
  ELSE LET a == SkipWs(s, i + Len(FUNCTION_DOGET))
       IN IF ~StartsAt(s, <<"(">>, a) THEN -1
          ELSE LET b == SkipWs(s, a + 1)
               IN IF ~StartsAt(s, <<"e">>, b) THEN -1
                  ELSE LET c == SkipWs(s, b + 1)
                       IN IF ~StartsAt(s, <<")">>, c) THEN -1
                          ELSE LET d == SkipWs(s, c + 1)
                               IN IF ~StartsAt(s, BRACE, d) THEN -1 ELSE d + 1

\* re.search(r'(function doGet\s*\(\s*e\s*\)\s*\{)', code): match.start() of
\* the leftmost match, or -1 for None
match_start(s) ==
  LET hits == {i \in 0..Len(s) : DeclMatchEnd(s, i) # -1}
  IN IF hits = {} THEN -1 ELSE MinOf(hits)

\* lines 67-68: the shim goes directly before the matched declaration
InsertFunc(s) ==
  LET insert_pos == match_start(s)
  IN Slice(s, 0, insert_pos) \o func \o Slice(s, insert_pos, Len(s))

\* lines 70-77: the offset of the call-site, located in the text that already
\* holds the shim
CallSitePos(s) ==
  LET doget_start == Find(s, DOGET_LITERAL, 0)
      brace_pos == Find(s, BRACE, doget_start) + 1
      try_pos == Find(s, TRY, brace_pos)
  IN IF try_pos # -1 /\ try_pos < brace_pos + Window
     THEN Find(s, BRACE, try_pos) + 1
     ELSE brace_pos

\* lines 79-80
InsertCall(s) ==
  LET insert_pos == CallSitePos(s)
  IN Slice(s, 0, insert_pos) \o call \o Slice(s, insert_pos, Len(s))

\* the gate of line 34 with the marker misspelt: a lower-case c
HasMarker_misspelt(s) ==
  Contains(s, <<"h","a","n","d","l","e","B","a","c","k","w","a","r","d","c","o","m","p","a","t","i","b","i","l","i","t","y">>)

\* the gate of line 34, looking for a call of the shim instead of its name
HasMarker_callOnly(s) == Contains(s, MARKER \o <<"(", "e", ")", ";">>)

\* line 34: "handleBackwardCompatibility" in code
HasMarker(s) == Contains(s, MARKER)

\* one open(path, "w") ... f.write(content)
WriteOp(path, content) == [file |-> path, content |-> content]

\* the writes ws as they reach the files
OnDisk(ws) == [i \in 1..Len(ws) |-> WriteOp(ws[i].file, Encode(ws[i].content))]

\* Step 1 (lines 31-84) on the text read from Code.gs: the texts it writes,
\* in order, and whether it reaches Step 2 (ok) or calls sys.exit(1)
SourceStep(s) ==
  IF HasMarker(s) THEN [ok |-> TRUE, writes |-> <<>>]
  ELSE IF match_start(s) = -1
       THEN [ok |-> FALSE, writes |-> <<WriteOp(CODE_GS_BACKUP, s)>>]
       ELSE [ok |-> TRUE,
             writes |-> <<WriteOp(CODE_GS_BACKUP, s),
                          WriteOp(CODE_GS, InsertCall(InsertFunc(s)))>>]

\* line 91: the verbatim binding is in the workflow
HasBaseUrl(s) == Contains(s, BASE_URL_BINDING)

\* the start of the leftmost match of r'(\s+)(GOOGLE_SCRIPT_URL: ...)' at or
\* after offset from, or -1: a whitespace character from which the greedy
\* \s+ runs up to the binding
NextSubMatch(s, from) ==
  LET hits == {i \in from..(Len(s) - 1) :
                 /\ s[i + 1] \in Whitespace
                 /\ StartsAt(s, GOOGLE_SCRIPT_URL_BINDING, SkipWs(s, i))}
  IN IF hits = {} THEN -1 ELSE MinOf(hits)

\* the template r'\1BASE_URL: ${{ needs.setup.outputs.deployment_url }}\n\1\2'
\* (line 100) for a match whose group 1 is g1
Replacement(g1) ==
  g1 \o BASE_URL_BINDING \o <<"\n">> \o g1 \o GOOGLE_SCRIPT_URL_BINDING

\* re.sub(pattern, template, workflow) from offset from on (lines 98-102):
\* every non-overlapping match, left to right, is replaced
RECURSIVE SubFrom(_, _)
SubFrom(s, from) ==
  LET m == NextSubMatch(s, from)
  IN IF m = -1 THEN Slice(s, from, Len(s))
     ELSE LET g2 == SkipWs(s, m)
              end == g2 + Len(GOOGLE_SCRIPT_URL_BINDING)
          IN Slice(s, from, m) \o Replacement(Slice(s, m, g2)) \o SubFrom(s, end)

ReSub(s) == SubFrom(s, 0)

\* Step 2 (lines 88-106) on the text read from the workflow file; it has
\* no failing exit
WorkflowStep(s) ==
  IF HasBaseUrl(s) THEN [ok |-> TRUE, writes |-> <<>>]
  ELSE [ok |-> TRUE,
        writes |-> <<WriteOp(WORKFLOW_YML_BACKUP, s),
                     WriteOp(WORKFLOW_YML, ReSub(s))>>]

\* the file system after the writes ws, applied in order
RECURSIVE ApplyWrites(_, _)
ApplyWrites(f, ws) ==
  IF ws = <<>> THEN f
  ELSE ApplyWrites([f EXCEPT ![Head(ws).file] = Head(ws).content], Tail(ws))

\* a caller that drops the result of run(cmd, desc)
AfterCommand_unchecked(ok, next) == next

\* run(cmd, desc) returned ok and the caller's 'if not run(...): sys.exit(1)'
\* (lines 110-111, 126-129): the phase that follows
AfterCommand(ok, next) == IF ok THEN next ELSE "aborted"

(***************************************************************************)
(* The inputs: the working tree the script is started in.                  *)
(***************************************************************************)
\* a 100-character comment body
Pad == [i \in 1..Window |-> "."]

\* a line end as an editor on Windows writes it
SegCrLf == <<"\r", "\n">>

SegDeclVariant ==
  <<"f","u","n","c","t","i","o","n"," ","d","o","G","e","t"," ","(","e",")"," ","{">>
SegTry == <<"t","r","y"," ","{">>
SegEntry == <<" ","e","n","t","r","y",";">>
SegIf == <<" ","i","f"," ","(","x",")"," ","{">>
SegMarked == <<"/","/"," ">> \o MARKER \o <<"\n">>

CodeSegments ==
  {DOGET_LITERAL, SegDeclVariant, SegTry, SegEntry, SegIf, Pad, SegMarked, SegCrLf}

SegEnv == <<"e","n","v",":">>
SegNewline == <<"\n">>
SegIndent == <<" "," ">>

WorkflowSegments ==
  {SegEnv, SegNewline, SegCrLf, SegIndent, GOOGLE_SCRIPT_URL_BINDING, BASE_URL_BINDING}

\* the concatenations of at most n segments
RECURSIVE Texts(_, _)
Texts(segs, n) ==
  IF n = 0 THEN {<<>>}
  ELSE LET shorter == Texts(segs, n - 1)
       IN shorter \cup {t \o g : t \in shorter, g \in segs}

CodeFiles == Texts(CodeSegments, MaxCodeSegs) \cup {NoFile}
WorkflowFiles == Texts(WorkflowSegments, MaxWfSegs) \cup {NoFile}

\* a Code.gs and a workflow as the repository holds them, unpatched
TypicalCode == DOGET_LITERAL \o <<"\n"," "," ">> \o SegTry \o <<"\n">>
TypicalWorkflow ==
  SegEnv \o <<"\n"," "," "," "," ">> \o GOOGLE_SCRIPT_URL_BINDING \o <<"\n">>

(***************************************************************************)
(* The state.                                                              *)
(***************************************************************************)
VARIABLES
  fs,        \* the working tree: path -> content, or NoFile
  pc,        \* the phase the current run is about to execute
  exit,      \* the exit status of the current run, -1 while it runs
  codeRead,  \* what Code.gs held when the current run read it (line 32)
  wfRead,    \* what the workflow file held when the current run read it (line 89)
  written,   \* the writes of the current run, in order
  executed,  \* the phases the current run has executed, in order
  results,   \* results[i]: executed[i] completed without failure
  runNo,     \* the number of the current run
  nWrites,   \* path -> how many times any run has written it
  patchedIn, \* the first run that rewrote Code.gs, 0 if none has
  patchedCode \* the content that run wrote to Code.gs

vars == <<fs, pc, exit, codeRead, wfRead, written, executed, results, runNo,
          nWrites, patchedIn, patchedCode>>

Phases == <<"PRECHECK", "PATCH_SOURCE", "PATCH_WORKFLOW", "STAGE", "COMMIT", "PUSH">>

\* the working tree before the first run: no backup yet, and at least one of
\* the two files as the repository holds it (the two steps share no data)
Init ==
  /\ \E c \in CodeFiles \cup {TypicalCode}, w \in WorkflowFiles \cup {TypicalWorkflow} :
       /\ c = TypicalCode \/ w = TypicalWorkflow
       /\ fs = [p \in Paths |->
                  IF p = CODE_GS THEN c ELSE IF p = WORKFLOW_YML THEN w ELSE NoFile]
  /\ pc = "PRECHECK"
  /\ exit = -1
  /\ codeRead = NoFile
  /\ wfRead = NoFile
  /\ written = <<>>
  /\ executed = <<>>
  /\ results = <<>>
  /\ runNo = 1
  /\ nWrites = [p \in Paths |-> 0]
  /\ patchedIn = 0
  /\ patchedCode = NoFile

\* what every phase does to the bookkeeping of the run
Record(phase, ok, next, ws) ==
  /\ executed' = Append(executed, phase)
  /\ results' = Append(results, ok)
  /\ pc' = next
  /\ exit' = IF next = "aborted" THEN 1 ELSE IF next = "done" THEN 0 ELSE -1
  /\ written' = written \o ws
  /\ fs' = ApplyWrites(fs, ws)
  /\ nWrites' = [p \in Paths |->
                   nWrites[p] + Cardinality({i \in 1..Len(ws) : ws[i].file = p})]

\* lines 19-27
Precheck ==
  /\ pc = "PRECHECK"
  /\ LET ok == fs[CODE_GS] # NoFile /\ fs[WORKFLOW_YML] # NoFile
     IN Record("PRECHECK", ok, IF ok THEN "PATCH_SOURCE" ELSE "aborted", <<>>)
  /\ UNCHANGED <<codeRead, wfRead, runNo, patchedIn, patchedCode>>

\* lines 29-84
PatchSource ==
  /\ pc = "PATCH_SOURCE"
  /\ codeRead' = fs[CODE_GS]
  /\ \E r \in {SourceStep(Decode(fs[CODE_GS]))} :
       \E ws \in {OnDisk(r.writes)} :
         LET rewrites == {i \in 1..Len(ws) : ws[i].file = CODE_GS}
         IN /\ Record("PATCH_SOURCE", r.ok, IF r.ok THEN "PATCH_WORKFLOW" ELSE "aborted", ws)
            /\ IF patchedIn = 0 /\ rewrites # {}
               THEN /\ patchedIn' = runNo
                    /\ patchedCode' = ws[MinOf(rewrites)].content
               ELSE UNCHANGED <<patchedIn, patchedCode>>
  /\ UNCHANGED <<wfRead, runNo>>

\* lines 86-106
PatchWorkflow ==
  /\ pc = "PATCH_WORKFLOW"
  /\ wfRead' = fs[WORKFLOW_YML]
  /\ \E r \in {WorkflowStep(Decode(fs[WORKFLOW_YML]))} :
       \E ws \in {OnDisk(r.writes)} :
         Record("PATCH_WORKFLOW", r.ok, IF r.ok THEN "STAGE" ELSE "aborted", ws)
  /\ UNCHANGED <<codeRead, runNo, patchedIn, patchedCode>>

\* lines 110-111: git add; the command's return code is the environment's
Stage ==
  /\ pc = "STAGE"
  /\ \E ok \in BOOLEAN : Record("STAGE", ok, AfterCommand(ok, "COMMIT"), <<>>)
  /\ UNCHANGED <<codeRead, wfRead, runNo, patchedIn, patchedCode>>

\* lines 126-127: git commit
Commit ==
  /\ pc = "COMMIT"
  /\ \E ok \in BOOLEAN : Record("COMMIT", ok, AfterCommand(ok, "PUSH"), <<>>)
  /\ UNCHANGED <<codeRead, wfRead, runNo, patchedIn, patchedCode>>

\* lines 128-135: git push, then the script runs off its end
Push ==
  /\ pc = "PUSH"
  /\ \E ok \in BOOLEAN : Record("PUSH", ok, AfterCommand(ok, "done"), <<>>)
  /\ UNCHANGED <<codeRead, wfRead, runNo, patchedIn, patchedCode>>

\* the operator starts the script again in the working tree the last run left
StartRun ==
  /\ pc \in {"done", "aborted"}
  /\ runNo < MaxRuns
  /\ runNo' = runNo + 1
  /\ pc' = "PRECHECK"
  /\ exit' = -1
  /\ codeRead' = NoFile
  /\ wfRead' = NoFile
  /\ written' = <<>>
  /\ executed' = <<>>
  /\ results' = <<>>
  /\ UNCHANGED <<fs, nWrites, patchedIn, patchedCode>>

Next ==
  \/ Precheck
  \/ PatchSource
  \/ PatchWorkflow
  \/ Stage
  \/ Commit
  \/ Push
  \/ StartRun

Spec == Init /\ [][Next]_vars

(***************************************************************************)
(* The properties.                                                         *)
(***************************************************************************)
\* the current run has written path p
WroteInRun(p) == \E i \in 1..Len(written) : written[i].file = p

\* the current run has executed its first n phases
Past(n) == Len(executed) >= n

BackupOf(p) == IF p = CODE_GS THEN CODE_GS_BACKUP ELSE WORKFLOW_YML_BACKUP
ReadOf(p) == IF p \in {CODE_GS, CODE_GS_BACKUP} THEN codeRead ELSE wfRead

\* 'code' and 'workflow' as the current run read them
codeText == Decode(codeRead)
wfText == Decode(wfRead)
MarkerOf(p) == IF p \in {CODE_GS, CODE_GS_BACKUP} THEN MARKER ELSE BASE_URL_BINDING

\* C1: when the Code.gs a run read holds neither the marker nor a match of the
\* declaration pattern, the run has aborted with exit status 1 once the source
\* phase is over, and it has written no file at all.
C1_HaltBeforeAnyWrite ==
  (Past(2) /\ ~Contains(codeText, MARKER) /\ match_start(codeText) = -1) =>
    (pc = "aborted" /\ exit = 1 /\ written = <<>>)

\* C2: in every run after the one that patched Code.gs, the source phase finds
\* the marker in what it reads and writes neither Code.gs nor Code.gs.backup,
\* so Code.gs stays what the patching run wrote.
C2_SourcePatchIdempotent ==
  (patchedIn # 0 /\ runNo > patchedIn) =>
    /\ fs[CODE_GS] = patchedCode
    /\ ~WroteInRun(CODE_GS)
    /\ ~WroteInRun(CODE_GS_BACKUP)
    /\ Past(2) => Contains(codeText, MARKER)

\* a later run has been through its source phase on a patched Code.gs
C2_Witness == patchedIn = 1 /\ runNo = 2 /\ Past(2) /\ results[2]

\* C3: whenever a run rewrites Code.gs or the workflow, it wrote the file's
\* '.backup' earlier in the same run with exactly the content the file held
\* when the run read it, and the backup holds that content from then on.
C3_BackupFidelity ==
  \A i \in 1..Len(written) :
    written[i].file \in {CODE_GS, WORKFLOW_YML} =>
      /\ \E j \in 1..(i - 1) :
           written[j] = WriteOp(BackupOf(written[i].file), ReadOf(written[i].file))
      /\ fs[BackupOf(written[i].file)] = ReadOf(written[i].file)

\* C4: a run writes a target file or its backup only if the content it read
\* from the target lacks the target's marker.
C4_MarkerGate ==
  \A i \in 1..Len(written) :
    ~Contains(ReadOf(written[i].file), MarkerOf(written[i].file))

\* a run skipped a Code.gs that holds the marker and rewrote a workflow that
\* lacks the binding
C4_Witness ==
  /\ Past(3)
  /\ Contains(codeText, MARKER)
  /\ ~WroteInRun(CODE_GS) /\ ~WroteInRun(CODE_GS_BACKUP)
  /\ ~Contains(wfRead, BASE_URL_BINDING)
  /\ WroteInRun(WORKFLOW_YML)

\* C5: once a '.backup' file is in the working tree, no step of any run writes
\* it again.
C5_BackupCreatedOnce ==
  [][\A p \in {CODE_GS_BACKUP, WORKFLOW_YML_BACKUP} :
       fs[p] # NoFile => nWrites'[p] = nWrites[p]]_vars

\* where the line that starts at offset i ends
LineEnd(s, i) == MinOf({j \in i..Len(s) : j = Len(s) \/ s[j + 1] = "\n"})

\* where the indentation of the line that starts at offset i ends
IndentEnd(s, i) == MinOf({j \in i..Len(s) : j = Len(s) \/ s[j + 1] \notin {" ", "\t"}})

\* the workflow s from offset i on (the start of a line), with one line
\* '<indent>BASE_URL: ...' before every line '<indent>GOOGLE_SCRIPT_URL: ...'
RECURSIVE WithBaseUrlLines(_, _)
WithBaseUrlLines(s, i) ==
  IF i >= Len(s) THEN <<>>
  ELSE LET e == LineEnd(s, i)
           k == IndentEnd(s, i)
           new == IF Slice(s, k, e) = GOOGLE_SCRIPT_URL_BINDING
                  THEN Slice(s, i, k) \o BASE_URL_BINDING \o <<"\n">>
                  ELSE <<>>
       IN new \o Slice(s, i, e)
              \o (IF e < Len(s) THEN <<"\n">> \o WithBaseUrlLines(s, e + 1) ELSE <<>>)

\* C6: when a run read a workflow without the BASE_URL binding, the text of
\* the workflow it leaves is the text it read plus, directly before every line
\* '<indent>GOOGLE_SCRIPT_URL: ...', one line '<indent>BASE_URL: ...' with the
\* same indentation, and nothing else is changed.
C6_WhitespaceFaithful ==
  (Past(3) /\ ~Contains(wfText, BASE_URL_BINDING)) =>
    Decode(fs[WORKFLOW_YML]) = WithBaseUrlLines(wfText, 0)

IdentChars ==
  {"a","b","c","d","e","f","g","h","i","j","k","l","m","n","o","p","q","r","s",
   "t","u","v","w","x","y","z","A","B","C","D","E","F","G","H","I","J","K","L",
   "M","N","O","P","Q","R","S","T","U","V","W","X","Y","Z","0","1","2","3","4",
   "5","6","7","8","9","_","$"}

\* a try block opens at offset t: the keyword try, then its opening brace
IsTryOpener(s, t) ==
  /\ StartsAt(s, TRY, t)
  /\ t = 0 \/ s[t] \notin IdentChars
  /\ StartsAt(s, BRACE, SkipWs(s, t + Len(TRY)))

\* the offset in s just inside the block the call-site belongs in, for the
\* declaration that ends (with its opening brace) at offset declEnd
BlockEntry(s, declEnd) ==
  LET openers == {t \in declEnd..(declEnd + Window - 1) : IsTryOpener(s, t)}
  IN IF openers = {} THEN declEnd
     ELSE SkipWs(s, MinOf(openers) + Len(TRY)) + 1

\* s with the shim before offset a and the call-site text at offset b >= a
Patched(s, a, b) ==
  Slice(s, 0, a) \o func \o Slice(s, a, b) \o call \o Slice(s, b, Len(s))

\* C7: when a run rewrites a Code.gs whose declaration is the literal
\* 'function doGet(e) {', the call-site text is directly after the opening
\* brace of the first try block that opens within Window characters after the
\* declaration's brace, and directly after the declaration's brace when no try
\* block opens there.
C7_BlockEntryAnchor ==
  LET ms == match_start(codeText)
      me == DeclMatchEnd(codeText, ms)
  IN (WroteInRun(CODE_GS) /\ Slice(codeText, ms, me) = DOGET_LITERAL) =>
       fs[CODE_GS] = Encode(Patched(codeText, ms, BlockEntry(codeText, me)))

\* C8: the phases a run has executed are an initial part of PRECHECK,
\* PATCH_SOURCE, PATCH_WORKFLOW, STAGE, COMMIT, PUSH; only the last executed
\* phase can have failed, and then the run has ended with status 1; the status
\* is 0 only after all six phases, PUSH included, succeeded.
C8_LinearOrchestration ==
  /\ Len(executed) <= Len(Phases)
  /\ \A i \in 1..Len(executed) : executed[i] = Phases[i]
  /\ \A i \in 1..Len(results) : ~results[i] => i = Len(results) /\ pc = "aborted" /\ exit = 1
  /\ pc = "aborted" => exit = 1 /\ results # <<>> /\ ~results[Len(results)]
  /\ pc = "done" <=> exit = 0
  /\ exit = 0 => Len(executed) = Len(Phases) /\ \A i \in 1..Len(results) : results[i]
  /\ pc \notin {"done", "aborted"} => pc = Phases[Len(executed) + 1]

\* git commit failed: the run ended there, after five phases
C8_Witness ==
  /\ pc = "aborted"
  /\ executed = SubSeq(Phases, 1, 5)
  /\ results = <<TRUE, TRUE, TRUE, TRUE, FALSE>>

\* C9: whenever a run rewrites Code.gs, the written content is the read one
\* with the shim directly before the declaration the pattern matched and the
\* call-site text inside that same declaration: after its opening brace and
\* before any later declaration.  A run that cannot place the call-site there
\* does not rewrite Code.gs.
C9_NoPartialPatch ==
  LET ms == match_start(codeText)
      me == DeclMatchEnd(codeText, ms)
  IN WroteInRun(CODE_GS) =>
       \E p \in me..Len(codeText) :
         /\ \A q \in me..(p - 1) : DeclMatchEnd(codeText, q) = -1
         /\ fs[CODE_GS] = Encode(Patched(codeText, ms, p))

\* C10: once the workflow phase of a run is over, the workflow file holds the
\* verbatim BASE_URL binding, and a rewrite has changed the file.
C10_WorkflowPostcondition ==
  Past(3) =>
    /\ Contains(fs[WORKFLOW_YML], BASE_URL_BINDING)
    /\ WroteInRun(WORKFLOW_YML) => fs[WORKFLOW_YML] # wfRead
=============================================================================
